---- MODULE Spec2Model ----
(***************************************************************************)
(* Model of Code_Python/Sorting.py: the sorters, the searches, the index   *)
(* array and the dispatcher sort().                                        *)
(*                                                                         *)
(* A Python list is a function with domain 0..N-1 (the source's indices).  *)
(* An element is a record [val, id]: val is what <, <=, == compare, id is  *)
(* the element's position in the caller's list, so that two elements of    *)
(* equal value stay distinguishable (as 1 and 1.0 are in Python).          *)
(* Lists are objects: mem maps a reference to the list it names.           *)
(***************************************************************************)
EXTENDS Integers, FiniteSets, Sequences, TLC

\* Bounds of the model.
MaxLen == 4          \* longest input list
MaxVal == 3          \* element values are 1..MaxVal
MaxGap == 3          \* shell sort gaps are 1..MaxGap
FactDen == 4         \* pivot factors are k/FactDen, k in 0..FactDen

\* Python's None, returned by the searches (never an index).
None == -1

Values == 1..MaxVal
Gaps == 1..MaxGap
\* A pivot factor is kept as its numerator over FactDen.
Facts == 0..FactDen
\* The method names sort knows, and one it does not know.
Methods == {"bubble", "short_bubble", "selection", "insertion", "shell",
            "quick", "heap", "merge", "other"}

\* The sorter sort runs for method m: merge_sort for any other name.
dispatch(m) ==
    IF m \in {"bubble", "short_bubble", "selection", "insertion", "shell",
              "quick", "heap"}
    THEN m ELSE "merge"

VARIABLES
    mem,         \* the lists in memory: reference -> list
    data,        \* sort's argument: the reference of the caller's list
    method,      \* sort's argument
    descending,  \* sort's argument
    param,       \* sort's argument (None, a gap, or a pivot factor numerator)
    pc,          \* where the call is
    loc,         \* the locals of sort and of the running sorter
    passes,      \* iterations of short_bubble_sort's outer loop so far
    sought,      \* binary_search's argument
    found        \* what binary_search returned

vars == <<mem, data, method, descending, param, pc, loc, passes, sought, found>>

len(a) == Cardinality(DOMAIN a)

NoElem == [val |-> 0, id |-> None]

\* The caller's list holding the values vs: element k is vs[k], tagged k.
MkList(vs) == [k \in DOMAIN vs |-> [val |-> vs[k], id |-> k]]

Inputs == UNION {[0..(n - 1) -> Values] : n \in 0..MaxLen}

----------------------------------------------------------------------------
\* a[i], a[j] = a[j], a[i]
swap_lost(a, i, j) == [a EXCEPT ![i] = a[j]]

swap(a, i, j) == [a EXCEPT ![i] = a[j], ![j] = a[i]]

\* ---- bubble_sort -------------------------------------------------------
RECURSIVE bubble_inner(_, _, _)
bubble_inner(a, i, n_pass) ==
    IF i >= n_pass THEN a
    ELSE bubble_inner(IF a[i].val > a[i + 1].val THEN swap(a, i + 1, i) ELSE a,
                      i + 1, n_pass)

RECURSIVE bubble_outer(_, _)
bubble_outer(a, n_pass) ==
    IF n_pass < 1 THEN a
    ELSE bubble_outer(bubble_inner(a, 0, n_pass), n_pass - 1)

bubble_sort(a) == bubble_outer(a, len(a) - 1)

\* ---- short_bubble_sort: one pass of the outer loop ----------------------
RECURSIVE short_bubble_inner(_, _, _, _)
short_bubble_inner(a, i, n_pass, is_sorted) ==
    IF i >= n_pass THEN [a |-> a, is_sorted |-> is_sorted]
    ELSE IF a[i].val > a[i + 1].val
         THEN short_bubble_inner(swap(a, i + 1, i), i + 1, n_pass, FALSE)
         ELSE short_bubble_inner(a, i + 1, n_pass, is_sorted)

short_bubble_pass(a, n_pass) == short_bubble_inner(a, 0, n_pass, TRUE)

\* Whether the outer loop runs another pass: the range is not exhausted and
\* the last pass did not break.
short_bubble_no_break(n_pass, is_sorted) == n_pass >= 1

short_bubble_continue(n_pass, is_sorted) == n_pass >= 1 /\ ~is_sorted

\* ---- selection_sort ----------------------------------------------------
RECURSIVE selection_max(_, _, _, _)
selection_max(a, i, n_pass, i_max) ==
    IF i > n_pass THEN i_max
    ELSE selection_max(a, i + 1, n_pass,
                       IF a[i].val > a[i_max].val THEN i ELSE i_max)

RECURSIVE selection_outer(_, _)
selection_outer(a, n_pass) ==
    IF n_pass < 1 THEN a
    ELSE selection_outer(swap(a, selection_max(a, 1, n_pass, 0), n_pass),
                         n_pass - 1)

selection_sort(a) == selection_outer(a, len(a) - 1)

\* ---- insertion_sort ----------------------------------------------------
RECURSIVE insertion_shift(_, _, _, _)
insertion_shift(a, j, gap, value) ==
    IF j >= gap /\ a[j - gap].val > value.val
    THEN insertion_shift([a EXCEPT ![j] = a[j - gap]], j - gap, gap, value)
    ELSE [a EXCEPT ![j] = value]

RECURSIVE insertion_outer(_, _, _)
insertion_outer(a, n_pass, gap) ==
    IF n_pass >= len(a) THEN a
    ELSE insertion_outer(insertion_shift(a, n_pass, gap, a[n_pass]),
                         n_pass + gap, gap)

insertion_sort(a, start, gap) == insertion_outer(a, start + gap, gap)

\* ---- shell_sort --------------------------------------------------------
shell_n_lists(a, gap) == len(a) \div gap

\* The start of the i-th sub-list.
shell_start(n_lists, i) == n_lists * i

\* ---- partition (quick_sort) --------------------------------------------
\* int(fact * (end - start) + start), fact = factnum / FactDen; the argument
\* is never negative, so int() is the floor.
pivot_index_round(factnum, start, end) ==
    (2 * factnum * (end - start) + FactDen) \div (2 * FactDen) + start

pivot_index(factnum, start, end) ==
    (factnum * (end - start) + FactDen * start) \div FactDen

RECURSIVE move_left(_, _, _, _)
move_left(a, left, right, pivot) ==
    IF left <= right /\ a[left].val <= pivot.val
    THEN move_left(a, left + 1, right, pivot)
    ELSE left

RECURSIVE move_right(_, _, _, _)
move_right(a, left, right, pivot) ==
    IF right >= left /\ a[right].val >= pivot.val
    THEN move_right(a, left, right - 1, pivot)
    ELSE right

RECURSIVE split_loop(_, _, _, _, _)
split_loop(a, start, left, right, pivot) ==
    LET l2 == move_left(a, left, right, pivot)
        r2 == move_right(a, l2, right, pivot)
    IN  IF r2 < l2
        THEN [a |-> swap(a, start, r2), right |-> r2]
        ELSE split_loop(swap(a, l2, r2), start, l2, r2, pivot)

\* One call of partition with start < end, up to its two recursive calls.
partition_split(a, start, end, factnum) ==
    LET a1 == swap(a, start, pivot_index(factnum, start, end))
        pivot == a1[start]
        r == split_loop(a1, start, start + 1, end, pivot)
    IN  [a |-> r.a, right |-> r.right, pivot |-> pivot]

\* ---- merge_sort --------------------------------------------------------
\* The test that copies the left front element: left[i] < right[j].
take_left_le(x, y) == x.val <= y.val

take_left(x, y) == x.val < y.val

RECURSIVE merge_loop(_, _, _, _, _, _)
merge_loop(a, left, right, i, j, k) ==
    IF i < len(left) /\ j < len(right)
    THEN IF take_left(left[i], right[j])
         THEN merge_loop([a EXCEPT ![k] = left[i]], left, right, i + 1, j, k + 1)
         ELSE merge_loop([a EXCEPT ![k] = right[j]], left, right, i, j + 1, k + 1)
    ELSE IF i < len(left)
    THEN merge_loop([a EXCEPT ![k] = left[i]], left, right, i + 1, j, k + 1)
    ELSE IF j < len(right)
    THEN merge_loop([a EXCEPT ![k] = right[j]], left, right, i, j + 1, k + 1)
    ELSE a

RECURSIVE merge_sort(_)
merge_sort(a) ==
    IF len(a) > 1
    THEN LET m == len(a) \div 2
             left == [x \in 0..(m - 1) |-> a[x]]
             right == [x \in 0..(len(a) - m - 1) |-> a[m + x]]
         IN  merge_loop(a, merge_sort(left), merge_sort(right), 0, 0, 0)
    ELSE a

\* ---- reverse -----------------------------------------------------------
RECURSIVE reverse_loop(_, _)
reverse_loop(a, i) ==
    IF i >= len(a) \div 2 THEN a
    ELSE reverse_loop(swap(a, i, len(a) - 1 - i), i + 1)

reverse(a) == reverse_loop(a, 0)

\* ---- binary_search -----------------------------------------------------
RECURSIVE binary_search_strict(_, _, _, _)
binary_search_strict(a, value, start, end) ==
    IF start < end
    THEN LET i == (start + end) \div 2
         IN  IF a[i].val = value THEN i
             ELSE IF a[i].val > value
                  THEN binary_search_strict(a, value, start, i - 1)
                  ELSE binary_search_strict(a, value, i + 1, end)
    ELSE None

RECURSIVE binary_search_loop(_, _, _, _)
binary_search_loop(a, value, start, end) ==
    IF start <= end
    THEN LET i == (start + end) \div 2
         IN  IF a[i].val = value THEN i
             ELSE IF a[i].val > value
                  THEN binary_search_loop(a, value, start, i - 1)
                  ELSE binary_search_loop(a, value, i + 1, end)
    ELSE None

binary_search(a, value) == binary_search_loop(a, value, 0, len(a) - 1)

\* ---- sequential_search -------------------------------------------------
RECURSIVE sequential_search_loop(_, _, _)
sequential_search_loop(a, value, i) ==
    IF i >= len(a) THEN None
    ELSE IF a[i].val = value.val THEN i
    ELSE sequential_search_loop(a, value, i + 1)

sequential_search(a, value) == sequential_search_loop(a, value, 0)

\* ---- build_index -------------------------------------------------------
build_index(a_sorted, a_original) ==
    LET n == len(a_sorted)
        first == [i \in 0..(n - 1) |->
                     sequential_search(a_sorted, a_original[i])]
    IN  [i \in 0..(n - 1) |-> first[first[i]]]          \* idx[idx]

\* ---- BinaryHeap (the collaborator of heap_sort, not in this file) --------
\* BinaryHeap(a): the heap is loaded with the elements of a and keeps its own
\* storage.
BinaryHeap(a) == {a[k] : k \in DOMAIN a}

\* heap.get(): the elements the heap may give up next, its least ones (the
\* sorter fills a[0], a[1], ... and ends ascending).
heap_get(heap) == {e \in heap : \A o \in heap : e.val <= o.val}

\* ---- data.copy() -------------------------------------------------------
copy_alias(m, r) == [mem |-> m, ref |-> r]

copy(m, r) == [mem |-> m @@ ("r2" :> m[r]), ref |-> "r2"]

----------------------------------------------------------------------------
\* The state after construction: the caller holds one list, nothing is called.
Init ==
    /\ \E vs \in Inputs : mem = ("r1" :> MkList(vs))
    /\ data = "r1"
    /\ method = "none"
    /\ descending = FALSE
    /\ param = None
    /\ pc = "idle"
    /\ loc = [a |-> "none", idx |-> <<>>, gap |-> 0, fact |-> 0,
              n_pass |-> 0, is_sorted |-> FALSE, n_lists |-> 0, i |-> 0,
              stack |-> <<>>, pivot |-> NoElem, heap |-> {}]
    /\ passes = 0
    /\ sought = None
    /\ found = None

\* The parameters a caller passes with method m.
Params(m) ==
    IF m = "shell" THEN {None} \cup Gaps
    ELSE IF m = "quick" THEN {None} \cup Facts
    ELSE {None}

\* sort(data, method, descending, param): the copy and the dispatch, up to
\* the entry of the chosen sorter.
Call(m, desc, p) ==
    /\ pc = "idle"
    /\ LET c == copy(mem, data)
           n == len(mem[data])
           gap == IF p = None THEN 1 ELSE p
           fact == IF p = None THEN 0 ELSE p
       IN  /\ mem' = c.mem
           /\ loc' = [loc EXCEPT
                  !.a = c.ref,
                  !.gap = IF m = "shell" THEN gap ELSE 0,
                  !.fact = IF m = "quick" THEN fact ELSE 0,
                  !.n_pass = IF m = "short_bubble" THEN n - 1 ELSE 0,
                  !.n_lists = IF m = "shell"
                              THEN shell_n_lists(mem[data], gap) ELSE 0,
                  !.stack = IF m = "quick" THEN << <<0, n - 1>> >> ELSE <<>>,
                  !.heap = IF m = "heap"
                           THEN BinaryHeap(c.mem[c.ref]) ELSE {}]
    /\ method' = m
    /\ descending' = desc
    /\ param' = p
    /\ pc' = dispatch(m)
    /\ UNCHANGED <<data, passes, sought, found>>

Sorted(result) ==
    /\ mem' = [mem EXCEPT ![loc.a] = result]
    /\ pc' = "build_index"
    /\ UNCHANGED <<data, method, descending, param, loc, passes, sought, found>>

BubbleSort == pc = "bubble" /\ Sorted(bubble_sort(mem[loc.a]))

SelectionSort == pc = "selection" /\ Sorted(selection_sort(mem[loc.a]))

InsertionSort == pc = "insertion" /\ Sorted(insertion_sort(mem[loc.a], 0, 1))

MergeSort == pc = "merge" /\ Sorted(merge_sort(mem[loc.a]))

\* One pass of short_bubble_sort's outer loop.
ShortBubblePass ==
    /\ pc = "short_bubble"
    /\ short_bubble_continue(loc.n_pass, loc.is_sorted)
    /\ LET r == short_bubble_pass(mem[loc.a], loc.n_pass)
       IN  /\ mem' = [mem EXCEPT ![loc.a] = r.a]
           /\ loc' = [loc EXCEPT !.n_pass = loc.n_pass - 1,
                                 !.is_sorted = r.is_sorted]
    /\ passes' = passes + 1
    /\ UNCHANGED <<data, method, descending, param, pc, sought, found>>

\* The loop is left, by the break or at the end of the range.
ShortBubbleReturn ==
    /\ pc = "short_bubble"
    /\ ~short_bubble_continue(loc.n_pass, loc.is_sorted)
    /\ pc' = "build_index"
    /\ UNCHANGED <<mem, data, method, descending, param, loc, passes, sought, found>>

\* One iteration of shell_sort's loop over the sub-lists.
ShellSubList ==
    /\ pc = "shell"
    /\ loc.i <= loc.n_lists
    /\ mem' = [mem EXCEPT ![loc.a] =
                   insertion_sort(@, shell_start(loc.n_lists, loc.i), loc.gap)]
    /\ loc' = [loc EXCEPT !.i = loc.i + 1]
    /\ UNCHANGED <<data, method, descending, param, pc, passes, sought, found>>

\* The final insertion sort with gap 1.
ShellFinal ==
    /\ pc = "shell"
    /\ loc.i > loc.n_lists
    /\ mem' = [mem EXCEPT ![loc.a] = insertion_sort(@, 0, 1)]
    /\ pc' = "build_index"
    /\ UNCHANGED <<data, method, descending, param, loc, passes, sought, found>>

\* One call of partition: the pending calls are kept on loc.stack, the call
\* on the left side above the call on the right side.
PartitionCall ==
    /\ pc = "quick"
    /\ loc.stack # <<>>
    /\ LET start == Head(loc.stack)[1]
           end == Head(loc.stack)[2]
       IN  IF start < end
           THEN LET r == partition_split(mem[loc.a], start, end, loc.fact)
                IN  /\ mem' = [mem EXCEPT ![loc.a] = r.a]
                    /\ loc' = [loc EXCEPT
                           !.pivot = r.pivot,
                           !.stack = << <<start, r.right - 1>>,
                                        <<r.right + 1, end>> >>
                                     \o Tail(loc.stack)]
           ELSE /\ loc' = [loc EXCEPT !.stack = Tail(loc.stack)]
                /\ UNCHANGED mem
    /\ UNCHANGED <<data, method, descending, param, pc, passes, sought, found>>

QuickReturn ==
    /\ pc = "quick"
    /\ loc.stack = <<>>
    /\ pc' = "build_index"
    /\ UNCHANGED <<mem, data, method, descending, param, loc, passes, sought, found>>

\* a[i] = heap.get(): the heap gives up a least element it holds.
HeapGet ==
    /\ pc = "heap"
    /\ loc.i < len(mem[loc.a])
    /\ \E e \in heap_get(loc.heap) :
          /\ mem' = [mem EXCEPT ![loc.a][loc.i] = e]
          /\ loc' = [loc EXCEPT !.heap = loc.heap \ {e}, !.i = loc.i + 1]
    /\ UNCHANGED <<data, method, descending, param, pc, passes, sought, found>>

HeapReturn ==
    /\ pc = "heap"
    /\ loc.i >= len(mem[loc.a])
    /\ pc' = "build_index"
    /\ UNCHANGED <<mem, data, method, descending, param, loc, passes, sought, found>>

\* idx = build_index(a, data)
BuildIndex ==
    /\ pc = "build_index"
    /\ loc' = [loc EXCEPT !.idx = build_index(mem[loc.a], mem[data])]
    /\ pc' = "reverse"
    /\ UNCHANGED <<mem, data, method, descending, param, passes, sought, found>>

\* The reversal of both when descending, and the return of (a, idx).
Return ==
    /\ pc = "reverse"
    /\ IF descending
       THEN /\ mem' = [mem EXCEPT ![loc.a] = reverse(@)]
            /\ loc' = [loc EXCEPT !.idx = reverse(@)]
       ELSE UNCHANGED <<mem, loc>>
    /\ pc' = "done"
    /\ UNCHANGED <<data, method, descending, param, passes, sought, found>>

\* binary_search(data, v), called on the caller's list as it is.
BinarySearch(v) ==
    /\ pc = "idle"
    /\ sought' = v
    /\ found' = binary_search(mem[data], v)
    /\ pc' = "searched"
    /\ UNCHANGED <<mem, data, method, descending, param, loc, passes>>

Next ==
    \/ \E m \in Methods, desc \in BOOLEAN :
          \E p \in Params(m) : Call(m, desc, p)
    \/ BubbleSort
    \/ SelectionSort
    \/ InsertionSort
    \/ MergeSort
    \/ ShortBubblePass
    \/ ShortBubbleReturn
    \/ ShellSubList
    \/ ShellFinal
    \/ PartitionCall
    \/ QuickReturn
    \/ HeapGet
    \/ HeapReturn
    \/ BuildIndex
    \/ Return
    \/ \E v \in 0..(MaxVal + 1) : BinarySearch(v)

Spec == Init /\ [][Next]_vars

----------------------------------------------------------------------------
\* What the properties speak of.
IsNonDecreasing(a) == \A i \in 0..(len(a) - 2) : a[i].val <= a[i + 1].val

IsNonIncreasing(a) == \A i \in 0..(len(a) - 2) : a[i].val >= a[i + 1].val

Count(a, e) == Cardinality({k \in DOMAIN a : a[k] = e})

SameElements(a, b) ==
    /\ len(a) = len(b)
    /\ \A k \in DOMAIN a : Count(a, a[k]) = Count(b, a[k])

HasDuplicates(a) == \E i, j \in DOMAIN a : i < j /\ a[i].val = a[j].val

SelfContained == Methods \ {"heap"}

\* The sorter has returned and the index array is not built yet.
SorterReturned == pc = "build_index"

----------------------------------------------------------------------------
\* What is left to do in the loop of a sorter that runs step by step: the
\* passes left (short_bubble), the sub-lists left (shell), the sizes of the
\* pending partition calls (quick); the other sorters return in one step.
RECURSIVE PendingWork(_)
PendingWork(stack) ==
    IF stack = <<>> THEN 0
    ELSE LET size == Head(stack)[2] - Head(stack)[1] + 1
         IN  (IF size > 0 THEN 2 * size + 1 ELSE 1) + PendingWork(Tail(stack))

Variant ==
    IF pc = "short_bubble" THEN loc.n_pass
    ELSE IF pc = "shell" THEN loc.n_lists + 1 - loc.i
    ELSE IF pc = "quick" THEN PendingWork(loc.stack)
    ELSE 0

\* A step of a self-contained sorter returns or lowers the measure.
SorterAdvances ==
    pc \in SelfContained \ {"other"}
        => \/ SorterReturned'
           \/ pc' = pc /\ Variant' >= 0 /\ Variant' < Variant

\* C1: every self-contained sorter terminates (each of its steps either
\* returns or lowers a measure that stays >= 0), leaving the list
\* non-decreasing and holding exactly the elements of the input;
\* sort(..., descending=True) returns them non-increasing.
C1_SortersSort ==
    /\ [](/\ (SorterReturned /\ method \in SelfContained)
              => /\ IsNonDecreasing(mem[loc.a])
                 /\ SameElements(mem[loc.a], mem[data])
          /\ (pc = "done" /\ descending /\ method \in SelfContained)
              => /\ IsNonIncreasing(mem[loc.a])
                 /\ SameElements(mem[loc.a], mem[data]))
    /\ [][SorterAdvances]_vars

C1_Witness ==
    /\ pc = "done"
    /\ descending
    /\ method = "shell"
    /\ len(mem[data]) = MaxLen
    /\ HasDuplicates(mem[data])
    /\ ~IsNonIncreasing(mem[data])

\* C2: the index array applied to the original list gives the sorted list:
\* data[idx[i]] == s[i] for every i.
C2_IndexGivesSorted ==
    (pc = "done" /\ ~descending)
        => \A i \in DOMAIN loc.idx :
               mem[data][loc.idx[i]].val = mem[loc.a][i].val

\* C3: the index array is a permutation of 0..N-1.
C3_IndexIsPermutation ==
    pc \in {"reverse", "done"}
        => /\ DOMAIN loc.idx = 0..(len(mem[data]) - 1)
           /\ \A k \in 0..(len(mem[data]) - 1) :
                  Cardinality({i \in DOMAIN loc.idx : loc.idx[i] = k}) = 1

\* C4: a non-decreasing input comes back equal element by element, with the
\* identity index array.
C4_SortedInputIdentity ==
    (pc = "done" /\ ~descending /\ IsNonDecreasing(mem[data]))
        => /\ \A i \in DOMAIN mem[data] : mem[loc.a][i].val = mem[data][i].val
           /\ \A i \in DOMAIN loc.idx : loc.idx[i] = i

\* C5 as claimed: merge_sort keeps elements of equal value in their original
\* relative order.
C5_MergeStable ==
    (SorterReturned /\ dispatch(method) = "merge")
        => \A i, j \in DOMAIN mem[loc.a] :
               (i < j /\ mem[loc.a][i].val = mem[loc.a][j].val)
                   => mem[loc.a][i].id < mem[loc.a][j].id

\* C5 as amended: on a tie the right front element is copied first, so
\* merge_sort leaves elements of equal value in the reverse of their original
\* relative order.
C5_MergeReversesTies ==
    (SorterReturned /\ dispatch(method) = "merge")
        => \A i, j \in DOMAIN mem[loc.a] :
               (i < j /\ mem[loc.a][i].val = mem[loc.a][j].val)
                   => mem[loc.a][i].id > mem[loc.a][j].id

C5_Witness ==
    /\ SorterReturned
    /\ method = "merge"
    /\ len(mem[data]) = MaxLen
    /\ \E i, j \in DOMAIN mem[data] :
           j > i + 1 /\ mem[data][i].val = mem[data][j].val

Occurs(a, v) == \E k \in DOMAIN a : a[k].val = v

\* C6 as claimed: on a non-decreasing list binary_search returns the first
\* index holding the value, and None when the value does not occur.
C6_BinarySearchFirst ==
    (pc = "searched" /\ IsNonDecreasing(mem[data]))
        => IF Occurs(mem[data], sought)
           THEN /\ found \in DOMAIN mem[data]
                /\ mem[data][found].val = sought
                /\ \A k \in 0..(found - 1) : mem[data][k].val # sought
           ELSE found = None

\* C6 as amended: on a non-decreasing list binary_search returns an index
\* holding the value when the value occurs (the first one when it occurs
\* once), and None when it does not occur.
C6_BinarySearchSome ==
    (pc = "searched" /\ IsNonDecreasing(mem[data]))
        => IF Occurs(mem[data], sought)
           THEN /\ found \in DOMAIN mem[data]
                /\ mem[data][found].val = sought
           ELSE found = None

C6_Witness ==
    /\ pc = "searched"
    /\ IsNonDecreasing(mem[data])
    /\ len(mem[data]) = MaxLen
    /\ found # None
    /\ \E k \in 0..(found - 1) : mem[data][k].val = sought

\* C7: no step of sort changes the caller's list.
C7_CallerListUntouched == [][data' = data /\ mem'[data] = mem[data]]_vars

C7_Witness ==
    /\ pc = "done"
    /\ descending
    /\ mem[loc.a] # mem[data]
    /\ reverse(mem[loc.a]) # mem[data]

\* C8 as claimed: on a non-decreasing input short_bubble_sort makes exactly
\* one pass of its outer loop, without a swap.
C8_OnePass ==
    (SorterReturned /\ method = "short_bubble" /\ IsNonDecreasing(mem[data]))
        => passes = 1 /\ mem[loc.a] = mem[data]

\* C8 as amended: on a non-decreasing input of length N >= 2
\* short_bubble_sort makes exactly one pass of its outer loop, without a
\* swap; on an input of length 0 or 1 it makes no pass.
C8_OnePassFromTwo ==
    (SorterReturned /\ method = "short_bubble" /\ IsNonDecreasing(mem[data]))
        => /\ passes = (IF len(mem[data]) >= 2 THEN 1 ELSE 0)
           /\ mem[loc.a] = mem[data]

C8_Witness ==
    /\ SorterReturned
    /\ method = "short_bubble"
    /\ IsNonDecreasing(mem[data])
    /\ len(mem[data]) = MaxLen
    /\ passes = 1

\* C9: in shell_sort, after the loop over the sub-lists and before the final
\* pass, the elements at positions r, r+g, r+2g, ... are non-decreasing for
\* every residue r in 0..g-1.
C9_SubListsSorted ==
    (pc = "shell" /\ loc.i > loc.n_lists)
        => \A r \in 0..(loc.gap - 1) :
               \A q \in DOMAIN mem[loc.a] :
                   (q % loc.gap = r /\ q + loc.gap \in DOMAIN mem[loc.a])
                       => mem[loc.a][q].val <= mem[loc.a][q + loc.gap].val

\* x rounded to the nearest integer, halves to the even one (Python's round),
\* for x = num / den >= 0.
Round(num, den) ==
    LET q == num \div den
        r == num % den
    IN  IF 2 * r < den THEN q
        ELSE IF 2 * r > den THEN q + 1
        ELSE IF q % 2 = 0 THEN q ELSE q + 1

\* A call of partition with start < end is about to run.
PartitionRuns ==
    /\ pc = "quick"
    /\ loc.stack # <<>>
    /\ Head(loc.stack)[1] < Head(loc.stack)[2]

\* C10 as claimed: the pivot of a partition call with start < end is the
\* element at index round(f * (end - start)) + start.
C10_PivotRounded ==
    [][PartitionRuns =>
          LET start == Head(loc.stack)[1]
              end == Head(loc.stack)[2]
          IN  loc'.pivot =
                  mem[loc.a][Round(loc.fact * (end - start), FactDen) + start]
      ]_vars

\* C10 as amended: the pivot of a partition call with start < end is the
\* element at index k = floor(f * (end - start)) + start, the integer with
\* k <= f * (end - start) + start < k + 1, and k lies in start..end.
C10_PivotFloor ==
    [][PartitionRuns =>
          LET start == Head(loc.stack)[1]
              end == Head(loc.stack)[2]
              x == loc.fact * (end - start) + FactDen * start
          IN  \E k \in start..end :
                  /\ FactDen * k <= x
                  /\ x < FactDen * (k + 1)
                  /\ loc'.pivot = mem[loc.a][k]
      ]_vars

C10_Witness ==
    /\ pc = "quick"
    /\ loc.fact = FactDen - 1
    /\ len(mem[data]) = MaxLen
    /\ loc.pivot = mem[data][MaxLen - 2]

====
